---- MODULE Spec2Model ----
(***************************************************************************)
(* build_assets.py: the asset packer.  create_asset_pack walks a source    *)
(* directory, builds a manifest of (path, offset, length) with 4-byte      *)
(* aligned offsets, and writes header, manifest and the XOR-enciphered     *)
(* payloads to one output file.                                            *)
(*                                                                         *)
(* Representation.  A byte is a number 0..255.  A Python str is a sequence *)
(* of code points, a bytes object a sequence of bytes.  A Python int that  *)
(* can exceed TLC's 32-bit integers (file sizes, offsets) is a            *)
(* PyInt: its little-endian base-256 digits with no leading zero digit, so *)
(* that <<>> is 0 and <<0,0,0,0,1>> is 2^32.  A filesystem path is a       *)
(* record [abs, parts]: whether it is absolute, and its components.        *)
(* A file of the source tree is [root, file, size, pat]: the directory     *)
(* os.walk reports it in, its name, its size and its content, which is     *)
(* pat repeated up to size bytes.                                          *)
(* Assumptions on the environment: no symbolic or hard links, a            *)
(* case-sensitive filesystem on posix and a case-insensitive one on nt,    *)
(* and nobody else touching the files during the run.                      *)
(***************************************************************************)
EXTENDS Integers, Sequences, FiniteSets, TLC

VARIABLES platform, XOR_KEY, source_isdir, output_file, walk,
          pak0, dirs0, pak, dirs,
          pc, wi, manifest, current_offset, files_to_process, mi, bi,
          msg, err, total_size

vars == <<platform, XOR_KEY, source_isdir, output_file, walk,
          pak0, dirs0, pak, dirs,
          pc, wi, manifest, current_offset, files_to_process, mi, bi,
          msg, err, total_size>>

\* The configuration and the environment, which no step of the program changes.
envVars == <<platform, XOR_KEY, source_isdir, output_file, walk, pak0, dirs0>>

-----------------------------------------------------------------------------
(* Bounds *)

\* The most files the walked tree holds.
MaxFiles == 3

-----------------------------------------------------------------------------
(* Bytes and Python integers *)

RECURSIVE BitXor(_, _)
\* a ^ b on non-negative integers.
BitXor(a, b) ==
    IF a = 0 THEN b
    ELSE IF b = 0 THEN a
    ELSE (((a % 2) + (b % 2)) % 2) + 2 * BitXor(a \div 2, b \div 2)

RECURSIVE BitAnd(_, _)
\* a & b on non-negative integers.
BitAnd(a, b) ==
    IF a = 0 \/ b = 0 THEN 0
    ELSE ((a % 2) * (b % 2)) + 2 * BitAnd(a \div 2, b \div 2)

RECURSIVE PyInt(_)
\* The Python int of a small natural number.
PyInt(n) == IF n = 0 THEN <<>> ELSE <<n % 256>> \o PyInt(n \div 256)

RECURSIVE PyNat(_)
\* The natural number of a Python int below 2^31.
PyNat(x) == IF x = <<>> THEN 0 ELSE Head(x) + 256 * PyNat(Tail(x))

RECURSIVE PyStrip(_)
\* Drops the leading (most significant) zero digits.
PyStrip(x) ==
    IF x = <<>> THEN <<>>
    ELSE IF x[Len(x)] = 0 THEN PyStrip(SubSeq(x, 1, Len(x) - 1))
    ELSE x

RECURSIVE PyAddC(_, _, _)
PyAddC(a, b, c) ==
    IF a = <<>> /\ b = <<>> THEN (IF c = 0 THEN <<>> ELSE <<c>>)
    ELSE LET da == IF a = <<>> THEN 0 ELSE Head(a)
             db == IF b = <<>> THEN 0 ELSE Head(b)
             s  == da + db + c
         IN  <<s % 256>> \o PyAddC(IF a = <<>> THEN <<>> ELSE Tail(a),
                                   IF b = <<>> THEN <<>> ELSE Tail(b),
                                   s \div 256)

\* a + b on Python ints.
PyAdd(a, b) == PyAddC(a, b, 0)

\* x & ~m on a Python int x >= 0, for a mask m < 256: ~m is the infinite
\* two's complement ...1111 with the bits of m cleared, so the digits above
\* the lowest are kept and the lowest is and-ed with 255 - m.
PyAndNot(x, m) ==
    IF x = <<>> THEN <<>>
    ELSE PyStrip(<<BitAnd(x[1], 255 - m)>> \o Tail(x))

\* Mutant: to_bytes keeps the low n bytes of any value and never raises.
to_bytes_never_raises(x, n) == FALSE

\* int.to_bytes(n, byteorder='little') raises OverflowError when the int
\* does not fit n bytes.
to_bytes_raises(x, n) == Len(x) > n

to_bytes(x, n) == [i \in 1..n |-> IF i <= Len(x) THEN x[i] ELSE 0]

\* str.encode('utf-8') of one code point below 0x800 and of a string.
Utf8Char(c) == IF c < 128 THEN <<c>> ELSE <<192 + (c \div 64), 128 + (c % 64)>>

RECURSIVE encode(_)
encode(s) == IF s = <<>> THEN <<>> ELSE Utf8Char(Head(s)) \o encode(Tail(s))

zeros(n) == [i \in 1..n |-> 0]

-----------------------------------------------------------------------------
(* The cipher *)

\* The key of the source: "my-secret-game-key-32-bytes!!!!!".
SourceKey ==
    <<109, 121, 45, 115, 101, 99, 114, 101, 116, 45, 103, 97, 109, 101, 45, 107,
      101, 121, 45, 51, 50, 45, 98, 121, 116, 101, 115, 33, 33, 33, 33, 33>>

\* Mutant: the key index runs one ahead of the data index.
xor_encrypt_shifted(data, key) ==
    LET key_bytes == encode(key)
        key_len   == Len(key_bytes)
    IN  [i \in 1..Len(data) |-> BitXor(data[i], key_bytes[(i % key_len) + 1])]

\* Mutant: zero bytes are left as they are.
xor_encrypt_skip_zero(data, key) ==
    LET key_bytes == encode(key)
        key_len   == Len(key_bytes)
    IN  [i \in 1..Len(data) |->
           IF data[i] = 0 THEN 0
           ELSE BitXor(data[i], key_bytes[((i - 1) % key_len) + 1])]

\* xor_encrypt raises ZeroDivisionError (i % 0) on the first byte when the key
\* is empty; on empty data the comprehension evaluates nothing.
xor_encrypt_raises(data, key) == Len(data) > 0 /\ Len(encode(key)) = 0

xor_encrypt(data, key) ==
    LET key_bytes == encode(key)
        key_len   == Len(key_bytes)
    IN  [i \in 1..Len(data) |-> BitXor(data[i], key_bytes[((i - 1) % key_len) + 1])]

-----------------------------------------------------------------------------
(* Paths *)

Sep == IF platform = "nt" THEN 92 ELSE 47

DotDot == <<46, 46>>
Dot == <<46>>

\* The working directory, /w.
Cwd == [abs |-> TRUE, parts |-> <<<<119>>>>]

join(p, name) == [p EXCEPT !.parts = Append(@, name)]

RECURSIVE NormParts(_, _)
\* os.path.normpath on the components: "." is dropped and ".." removes the
\* component before it (acc is the normalised prefix; the paths are absolute).
NormParts(acc, rest) ==
    IF rest = <<>> THEN acc
    ELSE IF Head(rest) = Dot THEN NormParts(acc, Tail(rest))
    ELSE IF Head(rest) = DotDot
         THEN NormParts(IF acc = <<>> THEN acc ELSE SubSeq(acc, 1, Len(acc) - 1),
                        Tail(rest))
    ELSE NormParts(Append(acc, Head(rest)), Tail(rest))

abspath(p) ==
    [abs |-> TRUE,
     parts |-> NormParts(<<>>, IF p.abs THEN p.parts ELSE Cwd.parts \o p.parts)]

lower(s) == [i \in 1..Len(s) |-> IF s[i] \in 65..90 THEN s[i] + 32 ELSE s[i]]

\* os.path.normcase: ntpath lower-cases the path, posixpath returns it unchanged.
normcase(p) ==
    IF platform = "nt"
    THEN [p EXCEPT !.parts = [i \in 1..Len(p.parts) |-> lower(p.parts[i])]]
    ELSE p

dirname(p) == [p EXCEPT !.parts = SubSeq(@, 1, Len(@) - 1)]

RECURSIVE CommonLen(_, _)
CommonLen(a, b) ==
    IF a = <<>> \/ b = <<>> THEN 0
    ELSE IF Head(a) = Head(b) THEN 1 + CommonLen(Tail(a), Tail(b))
    ELSE 0

RECURSIVE JoinSep(_, _)
\* sep.join(parts)
JoinSep(parts, sep) ==
    IF parts = <<>> THEN <<>>
    ELSE IF Len(parts) = 1 THEN parts[1]
    ELSE parts[1] \o <<sep>> \o JoinSep(Tail(parts), sep)

\* os.path.relpath(p, start): the components of abspath(p) after the prefix it
\* shares with abspath(start) (compared through normcase on nt), one ".." for
\* each further component of start, joined by os.sep.
relpath(p, start) ==
    LET a == abspath(p).parts
        s == abspath(start).parts
        k == CommonLen(normcase(abspath(p)).parts, normcase(abspath(start)).parts)
    IN  JoinSep([i \in 1..(Len(s) - k) |-> DotDot] \o SubSeq(a, k + 1, Len(a)), Sep)

\* str.replace(old, new) for single characters.
replace(s, old, new) == [i \in 1..Len(s) |-> IF s[i] = old THEN new ELSE s[i]]

-----------------------------------------------------------------------------
(* The source tree, the output path and the keys the model draws from *)

Media == <<109, 101, 100, 105, 97>>
Sub == <<115, 117, 98>>
OutDir == <<111, 117, 116>>
BytecodeByc == <<98, 121, 116, 101, 99, 111, 100, 101, 46, 98, 121, 99>>
APak == <<97, 46, 112, 97, 107>>
UpperPak == <<65, 46, 80, 65, 75>>

\* The command line of the usage text: python build_assets.py media ...
source_dir == [abs |-> FALSE, parts |-> <<Media>>]

SubDir == join(source_dir, Sub)

\* a.txt: "hello" (5 bytes).
FileA == [root |-> source_dir, file |-> <<97, 46, 116, 120, 116>>,
          size |-> PyInt(5), pat |-> <<104, 101, 108, 108, 111>>]
\* sub/b.bin: empty.
FileB == [root |-> SubDir, file |-> <<98, 46, 98, 105, 110>>,
          size |-> PyInt(0), pat |-> <<0>>]
\* e-acute.d: 33 bytes, longer than the key, with bytes 255, 0 and a key byte.
FileLong == [root |-> source_dir, file |-> <<233, 46, 100>>,
             size |-> PyInt(33), pat |-> <<255, 0, 109>>]
\* sub/bytecode.byc: the reserved name, below the root.
FileByc == [root |-> SubDir, file |-> BytecodeByc,
            size |-> PyInt(4), pat |-> <<1, 2, 3, 4>>]
\* a.pak and A.PAK: an earlier archive, and its upper-case namesake.
FilePak == [root |-> source_dir, file |-> APak,
            size |-> PyInt(8), pat |-> <<9, 8, 7, 6, 5, 4, 3, 2>>]
FileUpperPak == [root |-> source_dir, file |-> UpperPak,
                 size |-> PyInt(4), pat |-> <<80, 65, 75, 33>>]
\* big: 2^32 - 1 bytes, the largest length a u32 holds.
FileBig == [root |-> source_dir, file |-> <<98, 105, 103>>,
            size |-> <<255, 255, 255, 255>>, pat |-> <<1>>]
\* huge: 2^32 bytes.
FileHuge == [root |-> source_dir, file |-> <<104, 117, 103, 101>>,
             size |-> <<0, 0, 0, 0, 1>>, pat |-> <<1>>]

Files == {FileA, FileB, FileLong, FileByc, FilePak, FileUpperPak, FileBig, FileHuge}

\* Files whose bytes the model cannot enumerate.
IsLarge(f) == Len(f.size) > 2

\* The bytes of a file: pat repeated up to size bytes.
Contents(f) == [i \in 1..PyNat(f.size) |-> f.pat[((i - 1) % Len(f.pat)) + 1]]

\* os.walk is top-down: the files of the root come before those of sub; within
\* a directory the order is the host's.  A file too large to enumerate is
\* drawn only where the program fails before reading it: its own length does
\* not fit a u32, or the next file is one no rule excludes, whose offset then
\* does not fit.
Walks ==
    LET Seqs == UNION {[1..n -> Files] : n \in 0..MaxFiles}
    IN  {w \in Seqs :
           /\ \A i, j \in 1..Len(w) : i < j =>
                 /\ w[i] # w[j]
                 /\ ~(w[i].root = SubDir /\ w[j].root = source_dir)
           /\ \A i \in 1..Len(w) : IsLarge(w[i]) =>
                 \/ to_bytes_raises(w[i].size, 4)
                 \/ i < Len(w) /\ w[i + 1] \in {FileA, FileB, FileLong}}

\* media/../media/a.pak, media/A.PAK, out/a.pak
Outputs ==
    {[abs |-> FALSE, parts |-> <<Media, DotDot, Media, APak>>],
     [abs |-> FALSE, parts |-> <<Media, UpperPak>>],
     [abs |-> FALSE, parts |-> <<OutDir, APak>>]}

\* The key of the source; one character short; 32 characters of which one
\* takes two bytes (33 bytes); 16 characters of two bytes each (32 bytes);
\* empty.
Keys ==
    {SourceKey,
     SubSeq(SourceKey, 1, 31),
     SubSeq(SourceKey, 1, 31) \o <<233>>,
     [i \in 1..16 |-> 233],
     <<>>}

\* An archive left by an earlier run outside the source tree.
OldPak == <<1, 0, 0, 0>>

IsPrefix(a, b) == Len(a) <= Len(b) /\ SubSeq(b, 1, Len(a)) = a

\* All directories down to d (os.makedirs creates the missing ones).
Ancestors(parts) == {SubSeq(parts, 1, n) : n \in 1..Len(parts)}

Init ==
    /\ platform \in {"posix", "nt"}
    /\ XOR_KEY \in Keys
    /\ output_file \in Outputs
    /\ source_isdir \in BOOLEAN
    /\ walk \in (IF source_isdir THEN Walks ELSE {<<>>})
    \* One directory holds no two names that the filesystem takes for the same.
    /\ \A i, j \in 1..Len(walk) : i < j =>
          normcase(abspath(join(walk[i].root, walk[i].file)))
            # normcase(abspath(join(walk[j].root, walk[j].file)))
    \* The output path names a file of the tree, a missing file of the tree,
    \* or a file outside it that may or may not exist.
    /\ LET same == {i \in 1..Len(walk) :
                      normcase(abspath(join(walk[i].root, walk[i].file)))
                        = normcase(abspath(output_file))}
           inTree == IsPrefix(normcase(abspath(source_dir)).parts,
                              normcase(abspath(output_file)).parts)
       IN  pak0 \in (IF same # {}
                     THEN {[exists |-> TRUE, data |-> Contents(walk[i])] : i \in same}
                     ELSE IF inTree
                     THEN {[exists |-> FALSE, data |-> <<>>]}
                     ELSE {[exists |-> FALSE, data |-> <<>>],
                           [exists |-> TRUE, data |-> OldPak]})
    /\ dirs0 = {Cwd.parts}
               \cup (IF source_isdir
                     THEN {abspath(source_dir).parts, abspath(SubDir).parts}
                     ELSE {})
               \cup (IF pak0.exists
                     THEN {abspath(dirname(output_file)).parts}
                     ELSE {})
    /\ pak = pak0
    /\ dirs = dirs0
    \* The script is run (__main__), or create_asset_pack is called directly.
    /\ pc \in {"validate_key", "scan"}
    /\ wi = 1
    /\ manifest = <<>>
    /\ current_offset = PyInt(0)
    /\ files_to_process = <<>>
    /\ mi = 1
    /\ bi = 1
    /\ msg = ""
    /\ err = ""
    /\ total_size = 0

-----------------------------------------------------------------------------
(* __main__ *)

\* if len(XOR_KEY) != 32: print(ERROR ...); exit(1)
ValidateKey ==
    /\ pc = "validate_key"
    /\ IF Len(XOR_KEY) # 32
       THEN pc' = "exit" /\ msg' = "ERROR: XOR_KEY must be exactly 32 bytes."
       ELSE pc' = "check_dir" /\ msg' = msg
    /\ UNCHANGED <<envVars, pak, dirs, wi, manifest, current_offset,
                   files_to_process, mi, bi, err, total_size>>

\* if not os.path.isdir(args.source): print(ERROR ...); exit(1)
CheckDir ==
    /\ pc = "check_dir"
    /\ IF ~source_isdir
       THEN pc' = "exit" /\ msg' = "ERROR: Directory not found"
       ELSE pc' = "scan" /\ msg' = msg
    /\ UNCHANGED <<envVars, pak, dirs, wi, manifest, current_offset,
                   files_to_process, mi, bi, err, total_size>>

-----------------------------------------------------------------------------
(* create_asset_pack, step 1: build the manifest *)

abs_output_path == normcase(abspath(output_file))

\* Mutant: the paths are compared without os.path.normcase.
ExcludedExact(file, file_path) ==
    \/ file = BytecodeByc
    \/ abspath(file_path) = abspath(output_file)

\* The two tests of the loop that skip a file.
Excluded(file, file_path) ==
    \/ file = BytecodeByc
    \/ normcase(abspath(file_path)) = abs_output_path
    \/ normcase(abspath(file_path)) = abs_output_path

\* Mutant: file_size & ~3, which rounds down.
padded_size_floor(file_size) == PyAndNot(file_size, 3)

\* (file_size + 3) & ~3
padded_size(file_size) == PyAndNot(PyAdd(file_size, PyInt(3)), 3)

relative_path(file_path) == replace(relpath(file_path, source_dir), 92, 47)

\* One file of the walk: skipped, or appended to the manifest.
ScanFile ==
    /\ pc = "scan"
    /\ wi <= Len(walk)
    /\ LET file      == walk[wi].file
           file_path == join(walk[wi].root, file)
           file_size == walk[wi].size
       IN  IF Excluded(file, file_path)
           THEN UNCHANGED <<manifest, files_to_process, current_offset>>
           ELSE /\ manifest' = Append(manifest,
                                  [path |-> relative_path(file_path),
                                   offset |-> current_offset,
                                   length |-> file_size,
                                   padded_length |-> padded_size(file_size)])
                /\ files_to_process' = Append(files_to_process, file_path)
                /\ current_offset' = PyAdd(current_offset, padded_size(file_size))
    /\ wi' = wi + 1
    /\ UNCHANGED <<envVars, pak, dirs, pc, mi, bi, msg, err, total_size>>

\* Mutant: the empty manifest is reported but the function does not return.
CheckManifestNoReturn ==
    /\ pc = "scan"
    /\ wi > Len(walk)
    /\ pc' = "makedirs"
    /\ msg' = IF manifest = <<>> THEN "No files found!" ELSE msg
    /\ UNCHANGED <<envVars, pak, dirs, wi, manifest, current_offset,
                   files_to_process, mi, bi, err, total_size>>

\* if not manifest: print("No files found!"); return
CheckManifest ==
    /\ pc = "scan"
    /\ wi > Len(walk)
    /\ IF manifest = <<>>
       THEN pc' = "done" /\ msg' = "No files found!"
       ELSE pc' = "makedirs" /\ msg' = msg
    /\ UNCHANGED <<envVars, pak, dirs, wi, manifest, current_offset,
                   files_to_process, mi, bi, err, total_size>>

-----------------------------------------------------------------------------
(* create_asset_pack, step 2: write the .pak file *)

\* Mutant: the exception is caught and the file is opened and written again.
RaiseRetry(name, written) ==
    /\ pc' = "open"
    /\ err' = name
    /\ pak' = [pak EXCEPT !.data = @ \o written]

\* An exception leaves the with block, which closes the output file with what
\* was written so far, and ends the program.
Raise(name, written) ==
    /\ pc' = "failed"
    /\ err' = name
    /\ pak' = [pak EXCEPT !.data = @ \o written]

\* os.makedirs(os.path.dirname(output_file) or '.', exist_ok=True)
MakeDirs ==
    /\ pc = "makedirs"
    /\ LET d == IF dirname(output_file).parts = <<>> /\ ~output_file.abs
                THEN [abs |-> FALSE, parts |-> <<Dot>>]
                ELSE dirname(output_file)
       IN  dirs' = dirs \cup Ancestors(abspath(d).parts)
    /\ pc' = "open"
    /\ UNCHANGED <<envVars, pak, wi, manifest, current_offset,
                   files_to_process, mi, bi, msg, err, total_size>>

\* open(output_file, 'wb'): creates the file, or truncates the one there.
OpenOutput ==
    /\ pc = "open"
    /\ pak' = [exists |-> TRUE, data |-> <<>>]
    /\ pc' = "header"
    /\ UNCHANGED <<envVars, dirs, wi, manifest, current_offset,
                   files_to_process, mi, bi, msg, err, total_size>>

\* f.write(len(manifest).to_bytes(4, byteorder='little'))
WriteHeader ==
    /\ pc = "header"
    /\ pak' = [pak EXCEPT !.data = @ \o to_bytes(PyInt(Len(manifest)), 4)]
    /\ pc' = "manifest"
    /\ mi' = 1
    /\ UNCHANGED <<envVars, dirs, wi, manifest, current_offset,
                   files_to_process, bi, msg, err, total_size>>

\* Mutant: the path is written with a terminating zero byte.
EntryPathTerminated(item) ==
    LET path_bytes == encode(item.path)
    IN  to_bytes(PyInt(Len(path_bytes)), 4) \o path_bytes \o <<0>>

\* The first two writes of a manifest entry: the length of the path and the path.
EntryPath(item) ==
    LET path_bytes == encode(item.path)
    IN  to_bytes(PyInt(Len(path_bytes)), 4) \o path_bytes

\* One manifest entry.  The four writes happen in turn, so a to_bytes that
\* raises leaves the writes before it in the file.
WriteManifestEntry ==
    /\ pc = "manifest"
    /\ mi <= Len(manifest)
    /\ LET item == manifest[mi]
       IN  IF to_bytes_raises(item.offset, 4)
           THEN /\ Raise("OverflowError", EntryPath(item))
                /\ mi' = mi
           ELSE IF to_bytes_raises(item.length, 4)
           THEN /\ Raise("OverflowError", EntryPath(item) \o to_bytes(item.offset, 4))
                /\ mi' = mi
           ELSE /\ pak' = [pak EXCEPT !.data = @ \o EntryPath(item)
                                                 \o to_bytes(item.offset, 4)
                                                 \o to_bytes(item.length, 4)]
                /\ mi' = mi + 1
                /\ pc' = IF mi = Len(manifest) THEN "blob" ELSE "manifest"
                /\ err' = err
    /\ UNCHANGED <<envVars, dirs, wi, manifest, current_offset,
                   files_to_process, bi, msg, total_size>>

\* The file that open(file_path, 'rb') reads.
FileAt(file_path) ==
    CHOOSE f \in {walk[i] : i \in 1..Len(walk)} : join(f.root, f.file) = file_path

\* Mutant: without the outer % 4, an aligned file gets 4 bytes of padding.
padding_full(n) == 4 - (n % 4)

\* padding = (4 - (len(file_data) % 4)) % 4
padding(n) == (4 - (n % 4)) % 4

\* file_data += b'\0' * padding
Padded(file_data) == file_data \o zeros(padding(Len(file_data)))

\* One payload: the file is read, padded, enciphered and written.
WriteBlobFile ==
    /\ pc = "blob"
    /\ bi <= Len(files_to_process)
    /\ LET file_data == Padded(Contents(FileAt(files_to_process[bi])))
       IN  IF xor_encrypt_raises(file_data, XOR_KEY)
           THEN /\ Raise("ZeroDivisionError", <<>>)
                /\ bi' = bi
           ELSE /\ pak' = [pak EXCEPT !.data = @ \o xor_encrypt(file_data, XOR_KEY)]
                /\ bi' = bi + 1
                /\ pc' = IF bi = Len(files_to_process) THEN "close" ELSE "blob"
                /\ err' = err
    /\ UNCHANGED <<envVars, dirs, wi, manifest, current_offset,
                   files_to_process, mi, msg, total_size>>

\* The with block ends: total_size = os.path.getsize(output_file); print(Success).
Finish ==
    /\ pc = "close"
    /\ total_size' = Len(pak.data)
    /\ msg' = "Success!"
    /\ pc' = "done"
    /\ UNCHANGED <<envVars, pak, dirs, wi, manifest, current_offset,
                   files_to_process, mi, bi, err>>

-----------------------------------------------------------------------------

Next ==
    \/ ValidateKey
    \/ CheckDir
    \/ ScanFile
    \/ CheckManifest
    \/ MakeDirs
    \/ OpenOutput
    \/ WriteHeader
    \/ WriteManifestEntry
    \/ WriteBlobFile
    \/ Finish

Spec == Init /\ [][Next]_vars

-----------------------------------------------------------------------------
(* What a reader of the archive sees *)

\* The archive was written to its end.
Written == pc = "done" /\ msg = "Success!"

KeyBytes == encode(XOR_KEY)

\* A little-endian u32 field at position pos (from 1), as a Python int.
RdU32(d, pos) == PyStrip(SubSeq(d, pos, pos + 3))

RECURSIVE RdEntries(_, _, _)
\* n manifest entries from position pos on; next is the position after each.
RdEntries(d, pos, n) ==
    IF n = 0 THEN <<>>
    ELSE LET plen == PyNat(RdU32(d, pos))
         IN  <<[path   |-> SubSeq(d, pos + 4, pos + 3 + plen),
                offset |-> RdU32(d, pos + 4 + plen),
                length |-> RdU32(d, pos + 8 + plen),
                next   |-> pos + 12 + plen]>>
             \o RdEntries(d, pos + 12 + plen, n - 1)

\* Header, manifest and data blob of a complete archive.
Archive(d) ==
    LET n  == PyNat(RdU32(d, 1))
        es == RdEntries(d, 5, n)
        b  == IF n = 0 THEN 5 ELSE es[n].next
    IN  [entry_count |-> n, entries |-> es, blob |-> SubSeq(d, b, Len(d))]

\* L rounded up to the next multiple of 4, on naturals and on Python ints
\* (256 is a multiple of 4, so L mod 4 is the lowest digit mod 4).
RoundUp4(L) == L + ((4 - (L % 4)) % 4)

PyRoundUp4(x) ==
    IF x = <<>> THEN <<>> ELSE PyAdd(x, PyInt((4 - (x[1] % 4)) % 4))

\* The name of a file as the manifest spells it: the components below the
\* source directory, joined by "/", in UTF-8.
RelName(f) ==
    encode(JoinSep(SubSeq(f.root.parts, 2, Len(f.root.parts)) \o <<f.file>>, 47))

WalkedFiles == {walk[i] : i \in 1..Len(walk)}

RECURSIVE SumSeq(_)
SumSeq(q) == IF q = <<>> THEN 0 ELSE Head(q) + SumSeq(Tail(q))

RECURSIVE SelectIn(_, _)
\* The subsequence of the elements of q that are in S.
SelectIn(q, S) ==
    IF q = <<>> THEN <<>>
    ELSE (IF Head(q) \in S THEN <<Head(q)>> ELSE <<>>) \o SelectIn(Tail(q), S)

-----------------------------------------------------------------------------
(* C1 *)

\* What the loader does with entry e of archive A: the padded slice at the
\* entry's offset, each byte j XOR key[j mod 32] with j local to the slice,
\* cut to the entry's length.
LoaderRead(A, e) ==
    LET L     == PyNat(e.length)
        off   == PyNat(e.offset)
        slice == SubSeq(A.blob, off + 1, off + RoundUp4(L))
        plain == [j \in 1..Len(slice) |->
                    BitXor(slice[j], KeyBytes[((j - 1) % 32) + 1])]
    IN  SubSeq(plain, 1, L)

\* C1: with a key of 32 bytes, every entry of a written archive names a file
\* of the source tree, and reading the entry back the loader's way gives
\* exactly that file's bytes.
RoundTrip ==
    (Written /\ Len(KeyBytes) = 32) =>
        LET A == Archive(pak.data)
        IN  /\ A.entry_count = Len(files_to_process)
            /\ \A k \in 1..A.entry_count :
                 /\ \E f \in WalkedFiles : RelName(f) = A.entries[k].path
                 /\ \A f \in WalkedFiles :
                      RelName(f) = A.entries[k].path
                        => LoaderRead(A, A.entries[k]) = Contents(f)

\* A written archive of three files under a 32-byte key: one empty, one not
\* a multiple of 4 long, one longer than the key and not at offset 0.
RoundTripWitness ==
    /\ Written
    /\ Len(KeyBytes) = 32
    /\ Len(manifest) = 3
    /\ \E k \in 1..3 : manifest[k].length = PyInt(0)
    /\ \E k \in 1..3 : manifest[k].length = PyInt(5)
    /\ \E k \in 2..3 : manifest[k].length = PyInt(33) /\ manifest[k].offset # PyInt(0)

-----------------------------------------------------------------------------
(* C2 *)

\* C2: at every step the first entry is at offset 0, each further entry is at
\* the offset of the one before plus that one's length rounded up to a
\* multiple of 4, and the cursor is where the next entry would go.
OffsetInvariant ==
    LET n == Len(manifest)
    IN  /\ n = 0 => current_offset = PyInt(0)
        /\ n > 0 => manifest[1].offset = PyInt(0)
        /\ \A i \in 1..(n - 1) :
             manifest[i + 1].offset
               = PyAdd(manifest[i].offset, PyRoundUp4(manifest[i].length))
        /\ n > 0 => current_offset
                      = PyAdd(manifest[n].offset, PyRoundUp4(manifest[n].length))

\* In the middle of the scan, after an empty file and a file whose length is
\* not a multiple of 4.
OffsetInvariantWitness ==
    /\ pc = "scan"
    /\ wi <= Len(walk)
    /\ Len(manifest) = 2
    /\ \E k \in 1..2 : manifest[k].length = PyInt(0)
    /\ \E k \in 1..2 : manifest[k].length = PyInt(5)
    /\ current_offset = PyInt(8)

-----------------------------------------------------------------------------
(* C3 *)

\* C3: a key whose UTF-8 encoding is not 32 bytes long never gets as far as
\* creating or changing the output file or its directory.
KeyLengthGuard ==
    Len(KeyBytes) # 32 => pak = pak0 /\ dirs = dirs0

-----------------------------------------------------------------------------
(* C4 *)

\* The absolute path of a walked file, and that of the output.
AbsParts(f) == Cwd.parts \o f.root.parts \o <<f.file>>

OutputParts == abspath(output_file).parts

LowerParts(parts) == [i \in 1..Len(parts) |-> lower(parts[i])]

\* The files the claim keeps: not named bytecode.byc, and not the output path
\* when paths are compared without regard to case.
KeptIgnoringCase ==
    {f \in WalkedFiles :
       f.file # BytecodeByc /\ LowerParts(AbsParts(f)) # LowerParts(OutputParts)}

\* The files the code keeps: case is disregarded on nt only.
KeptByPlatform ==
    {f \in WalkedFiles :
       /\ f.file # BytecodeByc
       /\ IF platform = "nt"
          THEN LowerParts(AbsParts(f)) # LowerParts(OutputParts)
          ELSE AbsParts(f) # OutputParts}

ScanOver == pc \notin {"validate_key", "check_dir", "exit"} /\ wi > Len(walk)

ManifestIs(kept) ==
    LET q == SelectIn(walk, kept)
    IN  /\ Len(manifest) = Len(q)
        /\ Len(files_to_process) = Len(q)
        /\ \A k \in 1..Len(q) :
             /\ encode(manifest[k].path) = RelName(q[k])
             /\ files_to_process[k] = join(q[k].root, q[k].file)

\* C4 as claimed: after the scan the manifest lists, once each and in walk
\* order, exactly the files not named bytecode.byc whose path differs from
\* the output path compared case-insensitively.
ExclusionIgnoringCase == ScanOver => ManifestIs(KeptIgnoringCase)

\* C4 as amended: the same, with the output path compared as os.path.normcase
\* compares it: without regard to case on Windows, exactly elsewhere.
ExclusionByPlatform == ScanOver => ManifestIs(KeptByPlatform)

\* After a scan on nt that skipped bytecode.byc and a file whose path is the
\* output path in another case, and kept the third file.
ExclusionWitness ==
    /\ ScanOver
    /\ platform = "nt"
    /\ Len(walk) = 3
    /\ Len(manifest) = 1
    /\ \E i \in 1..3 : walk[i].file = BytecodeByc
    /\ \E i \in 1..3 : /\ AbsParts(walk[i]) # OutputParts
                       /\ LowerParts(AbsParts(walk[i])) = LowerParts(OutputParts)

-----------------------------------------------------------------------------
(* C5 *)

\* C5: while the manifest is empty nothing is created or changed on disk, and
\* when the scan ends with an empty manifest the function returns, having
\* reported "No files found!".
EmptyResult ==
    manifest = <<>> =>
        /\ pak = pak0
        /\ dirs = dirs0
        /\ pc \in {"validate_key", "check_dir", "exit", "scan", "done"}
        /\ pc = "done" => msg = "No files found!"

\* Returned from a directory that holds only bytecode.byc and the existing
\* output file.
EmptyResultWitness ==
    /\ pc = "done"
    /\ msg = "No files found!"
    /\ Len(walk) = 2
    /\ pak0.exists
    /\ \E i \in 1..2 : walk[i].file = BytecodeByc

-----------------------------------------------------------------------------
(* C6 *)

\* The file the k-th manifest entry was made from.
EntryFile(k) == SelectIn(walk, {f \in WalkedFiles : RelName(f) = encode(manifest[k].path)})[1]

\* The file's bytes followed by zero bytes up to a multiple of 4.
PaddedPlain(f) ==
    LET L == PyNat(f.size)
    IN  [j \in 1..RoundUp4(L) |-> IF j <= L THEN Contents(f)[j] ELSE 0]

\* C6: with a key of 32 bytes, byte j of entry k's slice of the blob is byte j
\* of the padded file XOR key[j mod 32], where j counts from the start of the
\* slice; so a padding byte at j is stored as key[j mod 32].
PerFileIndex ==
    (Written /\ Len(KeyBytes) = 32) =>
        LET A == Archive(pak.data)
        IN  \A k \in 1..Len(manifest) :
              LET off == PyNat(manifest[k].offset)
                  pp  == PaddedPlain(EntryFile(k))
              IN  /\ off + Len(pp) <= Len(A.blob)
                  /\ \A j \in 0..(Len(pp) - 1) :
                       A.blob[off + j + 1] = BitXor(pp[j + 1], KeyBytes[(j % 32) + 1])
                  /\ \A j \in PyNat(manifest[k].length)..(Len(pp) - 1) :
                       A.blob[off + j + 1] = KeyBytes[(j % 32) + 1]

\* A written archive in which a file longer than the key, with padding,
\* starts at an offset that is not a multiple of 32.
PerFileIndexWitness ==
    /\ Written
    /\ Len(KeyBytes) = 32
    /\ \E k \in 1..Len(manifest) :
         /\ manifest[k].length = PyInt(33)
         /\ PyNat(manifest[k].offset) % 32 # 0

-----------------------------------------------------------------------------
(* C7 *)

\* C7: a step that writes the payload of a file of length L appends L bytes
\* and (4 - L % 4) % 4 enciphered zero bytes, fewer than 4 and none when L is
\* a multiple of 4; that is as many bytes as the manifest counted for it.
PaddingDeterminism ==
    [][(pc = "blob" /\ pc' # "failed") =>
         LET L   == PyNat(manifest[bi].length)
             old == Len(pak.data)
             n   == Len(pak'.data) - old
         IN  /\ n = L + ((4 - (L % 4)) % 4)
             /\ n = PyNat(manifest[bi].padded_length)
             /\ L % 4 = 0 => n = L
             /\ \A j \in L..(n - 1) :
                  BitXor(pak'.data[old + j + 1],
                         KeyBytes[(j % Len(KeyBytes)) + 1]) = 0]_vars

\* All payloads written: of an empty file, of a file of 8 bytes and of one
\* of 5 bytes.
PaddingDeterminismWitness ==
    /\ pc = "close"
    /\ Len(manifest) = 3
    /\ \E k \in 1..3 : manifest[k].length = PyInt(0)
    /\ \E k \in 1..3 : manifest[k].length = PyInt(8)
    /\ \E k \in 1..3 : manifest[k].length = PyInt(5)

-----------------------------------------------------------------------------
(* C8 *)

ManifestSectionSize ==
    SumSeq([k \in 1..Len(manifest) |-> 4 + Len(encode(manifest[k].path)) + 4 + 4])

PaddedLengthsSum ==
    SumSeq([k \in 1..Len(manifest) |-> RoundUp4(PyNat(manifest[k].length))])

\* C8: a written archive is 4 + the manifest section + the padded lengths
\* long; the blob starts where the manifest ends and is as long as the final
\* cursor; the payloads lie in manifest order.
ArchiveSize ==
    Written =>
        LET A == Archive(pak.data)
        IN  /\ Len(manifest) >= 1
            /\ total_size = Len(pak.data)
            /\ total_size = 4 + ManifestSectionSize + PaddedLengthsSum
            /\ A.entry_count = Len(manifest)
            /\ A.entries[A.entry_count].next = 4 + ManifestSectionSize + 1
            /\ Len(A.blob) = PyNat(current_offset)
            /\ \A k \in 1..(A.entry_count - 1) :
                 PyNat(A.entries[k].offset) + RoundUp4(PyNat(A.entries[k].length))
                   = PyNat(A.entries[k + 1].offset)

\* A written archive of three entries, one of them with a path that takes
\* more bytes than it has characters.
ArchiveSizeWitness ==
    /\ Written
    /\ Len(manifest) = 3
    /\ \E k \in 1..3 : Len(encode(manifest[k].path)) > Len(manifest[k].path)
    /\ total_size > 4 + ManifestSectionSize

-----------------------------------------------------------------------------
(* C9 *)

\* The writer's states in order: not open, open, HeaderWritten,
\* ManifestWritten, BlobWritten, Done; and the two ends without an archive.
WriterRank(p) ==
    CASE p \in {"validate_key", "check_dir", "scan", "makedirs", "open"} -> 0
      [] p = "header" -> 1
      [] p = "manifest" -> 2
      [] p = "blob" -> 3
      [] p = "close" -> 4
      [] p = "done" -> 5
      [] p \in {"failed", "exit"} -> 6

\* C9: the writer only moves forward, one state at a time unless it ends; the
\* file only grows once it is open; the header is the first thing in it, the
\* first payload comes after the last manifest entry; and after an error or
\* the end nothing happens any more.
WriterOrdering ==
    [][/\ WriterRank(pc') >= WriterRank(pc)
       /\ WriterRank(pc') > WriterRank(pc) + 1 => pc' \in {"done", "failed", "exit"}
       /\ WriterRank(pc) >= 1 => IsPrefix(pak.data, pak'.data)
       /\ pc = "header" => pak.data = <<>> /\ pak'.data = to_bytes(PyInt(Len(manifest)), 4)
       /\ pc' = "blob" /\ pc # "blob" =>
            /\ pc = "manifest"
            /\ mi = Len(manifest)
            /\ bi = 1
            /\ Len(pak'.data) = 4 + ManifestSectionSize
       /\ pc = "blob" => Len(pak.data) >= 4 + ManifestSectionSize
       /\ pc' = "close" /\ pc # "close" => pc = "blob" /\ bi = Len(files_to_process)
       /\ pc \in {"done", "failed", "exit"} => pc' = pc /\ pak' = pak]_vars

\* An archive written to its end, and two payloads in it.
WriterOrderingWitness ==
    /\ Written
    /\ Len(manifest) >= 2
    /\ Len(pak.data) > 4 + ManifestSectionSize

-----------------------------------------------------------------------------
(* C10 *)

\* The entries whose offset or length is 2^32 or more.
TooWide == {k \in 1..Len(manifest) :
              Len(manifest[k].offset) > 4 \/ Len(manifest[k].length) > 4}

EntrySize(k) == 4 + Len(encode(manifest[k].path)) + 4 + 4

\* C10: the fields of a written archive are the manifest's values, unreduced;
\* and with an offset or a length of 2^32 or more the program never gets to
\* the blob: it fails with OverflowError in the first such entry, leaving the
\* opened file with the header, the entries before that one (their fields
\* unreduced too) and the part of that entry written before the field that
\* does not fit.
NoSilentWrap ==
    /\ Written =>
         LET A == Archive(pak.data)
         IN  \A k \in 1..Len(manifest) :
               /\ A.entries[k].offset = manifest[k].offset
               /\ A.entries[k].length = manifest[k].length
    /\ TooWide # {} =>
         LET bad == CHOOSE k \in TooWide : \A m \in TooWide : k <= m
         IN  /\ pc \notin {"blob", "close", "done"}
             /\ pc = "manifest" => mi <= bad
             /\ pc = "failed" =>
                  /\ err = "OverflowError"
                  /\ pak.exists
                  /\ mi = bad
                  /\ LET es == RdEntries(pak.data, 5, bad - 1)
                     IN  \A k \in 1..(bad - 1) :
                           /\ es[k].offset = manifest[k].offset
                           /\ es[k].length = manifest[k].length
                  /\ Len(pak.data)
                       = 4 + SumSeq([k \in 1..(bad - 1) |-> EntrySize(k)])
                           + 4 + Len(encode(manifest[bad].path))
                           + (IF Len(manifest[bad].offset) > 4 THEN 0 ELSE 4)
                  /\ Len(pak.data) < 4 + ManifestSectionSize

\* Failed in the second entry, whose offset is 2^32, after a first entry of
\* length 2^32 - 1 was written.
NoSilentWrapWitness ==
    /\ pc = "failed"
    /\ err = "OverflowError"
    /\ mi = 2
    /\ manifest[1].length = <<255, 255, 255, 255>>
    /\ manifest[2].offset = <<0, 0, 0, 0, 1>>

====
